---- MODULE Spec2Model ----
(***************************************************************************)
(* Model of Weather-app/weatherTask.ts: the request sequencer              *)
(* (latestRequestId and the staleness checkpoints of fetchTodayWeather),   *)
(* the day/hour windower (getHourlyForDay), the hour cards and the unit    *)
(* preferences.                                                            *)
(*                                                                         *)
(* Every invocation of the async function fetchTodayWeather is a task; a   *)
(* task's pc is the await it is suspended at, or the return it left by.    *)
(* One action is one run-to-completion step of the event loop: a user      *)
(* event handler, the settling of a network promise, or a timer firing,    *)
(* together with all the synchronous code that follows it.                 *)
(***************************************************************************)
EXTENDS Integers, Sequences, FiniteSets, TLC

\* ------------------------------------------------------------------ bounds
MaxRequests == 2        \* fetchTodayWeather invocations in one behaviour
MaxLen == 3             \* length of the hourly series given to the windower

\* --------------------------------------------------------------- constants
Labels == {"Temperature", "Wind Speed", "Precipitation"}
DataSections == {"todaySection", "mainContToday", "infoCardsCon", "forecast", "hourForecast"}
NaN == -1               \* the time value of an Invalid Date
NoDate == -1            \* the date string "" (a menu item without data-date)
OKDelay == 2000
ErrDelay == 3000

\* ------------------------------------------------------------------- Date
\* A time string "YYYY-MM-DDTHH:MM" is [date, hh, mm]; a date string is the
\* day number, or NoDate for "".  new Date(s) gives the minutes since day 0
\* in local time, and an Invalid Date (NaN) when the date part is missing.
DateValue(date, hh, mm) == IF date = NoDate THEN NaN ELSE date * 1440 + hh * 60 + mm

ParseTime(t) == DateValue(t.date, t.hh, t.mm)

\* Date comparison: any comparison with an Invalid Date is false.
DateGE(a, b) == a # NaN /\ b # NaN /\ a >= b

DateLE(a, b) == a # NaN /\ b # NaN /\ a <= b

GetHours(t) == t.hh

\* --------------------------------------------------------- getHourlyForDay
InDayOpenStart(t, start, end) == ~DateLE(t, start) /\ DateLE(t, end)

InDayNoEnd(t, start, end) == DateGE(t, start)

InDay(t, start, end) == DateGE(t, start) /\ DateLE(t, end)

\* hourly.time.map(...): one HourlyData per index of hourly.time
MapHourly(hourly) ==
    [i \in 1..Len(hourly.time) |->
        [time |-> hourly.time[i],
         temperature |-> hourly.temperature_2m[i],
         weathercode |-> hourly.weathercode[i]]]

\* .filter(h => t >= start && t <= end): the kept elements, in their order
RECURSIVE FilterDay(_, _, _)
FilterDay(hs, start, end) ==
    IF hs = <<>> THEN <<>>
    ELSE IF InDay(ParseTime(Head(hs).time), start, end)
         THEN <<Head(hs)>> \o FilterDay(Tail(hs), start, end)
         ELSE FilterDay(Tail(hs), start, end)

getHourlyForDay(hourly, dateStr) ==
    FilterDay(MapHourly(hourly), DateValue(dateStr, 0, 0), DateValue(dateStr, 23, 59))

\* ------------------------------------------------------------ renderHourly
HourCards == 2          \* the .hour-temp-con elements of the page

displayHourNoonAM(hour) ==
    IF hour = 0 THEN <<12, "AM">>
    ELSE IF hour <= 12 THEN <<hour, "AM">>
    ELSE <<hour - 12, "PM">>

\* The label `${n} AM` or `${n} PM`, as the pair of its number and its suffix.
displayHour(hour) ==
    IF hour = 0 THEN <<12, "AM">>
    ELSE IF hour < 12 THEN <<hour, "AM">>
    ELSE IF hour = 12 THEN <<12, "PM">>
    ELSE <<hour - 12, "PM">>

\* the same expression as written in updateHourlyForecast
displayHourOfUpdate(hour) ==
    IF hour = 0 THEN <<12, "AM">>
    ELSE IF hour < 12 THEN <<hour, "AM">>
    ELSE IF hour = 12 THEN <<12, "PM">>
    ELSE <<hour - 12, "PM">>

HideCardKept(c) == c

\* card.classList.add("display-none"): the content of the card stays
HideCard(c) == [c EXCEPT !.hidden = TRUE]

\* a card that shows the sample h
FillCard(c, h) ==
    [hidden |-> FALSE, label |-> displayHour(GetHours(h.time)),
     temp |-> h.temperature, code |-> h.weathercode]

\* hourCards.forEach: card i shows hours[i], or is hidden when there is no
\* hours[i].  parts says whether the cards have the .hour-time, .hour-temp and
\* .hour-icon-con children; without them the first card to be filled throws
\* a TypeError (textContent of null) after its display-none was removed, and
\* the cards after it are not visited.
RECURSIVE RenderCards(_, _, _, _)
RenderCards(cards, hours, parts, i) ==
    IF i > Len(cards) THEN [cards |-> cards, threw |-> FALSE]
    ELSE IF i > Len(hours)
    THEN RenderCards([cards EXCEPT ![i] = HideCard(@)], hours, parts, i + 1)
    ELSE IF ~parts
    THEN [cards |-> [cards EXCEPT ![i].hidden = FALSE], threw |-> TRUE]
    ELSE RenderCards([cards EXCEPT ![i] = FillCard(@, hours[i])], hours, parts, i + 1)

renderHourly(cards, hours, parts) == RenderCards(cards, hours, parts, 1)

\* ------------------------------------------------------------ unit options
Metric == [l \in Labels |-> "metric"]

NoPrefsMap == [l \in Labels |-> "absent"]

DefaultUnits == [temperature |-> "celsius", wind |-> "kmh", precipitation |-> "mm"]

getUnitParamsFromTemperature(p) ==
    [temperature |-> IF p["Temperature"] = "imperial" THEN "fahrenheit" ELSE "celsius",
     wind |-> IF p["Temperature"] = "imperial" THEN "mph" ELSE "kmh",
     precipitation |-> IF p["Temperature"] = "imperial" THEN "inch" ELSE "mm"]

\* getUnitParams: the three units read from the persisted map
getUnitParams(p) ==
    [temperature |-> IF p["Temperature"] = "imperial" THEN "fahrenheit" ELSE "celsius",
     wind |-> IF p["Wind Speed"] = "imperial" THEN "mph" ELSE "kmh",
     precipitation |-> IF p["Precipitation"] = "imperial" THEN "inch" ELSE "mm"]

getCurrentSystemAnyImperial(sel) ==
    IF \E l \in Labels : sel[l] = "imperial" THEN "imperial" ELSE "metric"

getCurrentSystem(sel) ==
    LET allMetric == \A l \in Labels : sel[l] = "none" \/ sel[l] = "metric"
        allImperial == \A l \in Labels : sel[l] = "none" \/ sel[l] = "imperial"
    IN IF allMetric THEN "metric" ELSE IF allImperial THEN "imperial" ELSE "mixed"

SwitchButtonTwoStates(sel) ==
    IF \A l \in Labels : sel[l] = "imperial"
    THEN [text |-> "Switch to Metric", state |-> "imperial"]
    ELSE [text |-> "Switch to Imperial", state |-> "metric"]

\* updateSwitchButton: the button's text and dataset.state
SwitchButtonFor(sel) ==
    LET state == getCurrentSystem(sel)
    IN IF state = "metric" THEN [text |-> "Switch to Imperial", state |-> "metric"]
       ELSE IF state = "imperial" THEN [text |-> "Switch to Metric", state |-> "imperial"]
       ELSE [text |-> "Custom units", state |-> "mixed"]

PrefsOfFirstSection(sel) ==
    [l \in Labels |-> IF l = "Temperature" /\ sel[l] # "none" THEN sel[l] ELSE "absent"]

\* savePreferences: the object written to localStorage
PrefsOf(sel) == [l \in Labels |-> IF sel[l] = "none" THEN "absent" ELSE sel[l]]

restorePreferences(saved, sel) ==
    IF \A l \in Labels : saved[l] = "absent" THEN sel
    ELSE [l \in Labels |-> IF saved[l] = "absent" THEN sel[l] ELSE saved[l]]

\* ------------------------------------------------------- display switching
\* ui[e] for an element e is "e has the class display-none"; the two other
\* flags are searchBtn.disabled and the bg-show class of todaySection.
Elements == DataSections \cup {"errorFetchCon", "mainContent", "searchCon", "noResult",
                               "loadingCon", "searchLoading", "weatherIcon"}

UiFlags == Elements \cup {"searchBtnDisabled", "bgShow"}

showSearchLoading(u) == [u EXCEPT !["searchLoading"] = FALSE, !["searchBtnDisabled"] = TRUE]

hideSearchLoadingSpinnerOnly(u) == [u EXCEPT !["searchLoading"] = TRUE]

hideSearchLoading(u) == [u EXCEPT !["searchLoading"] = TRUE, !["searchBtnDisabled"] = FALSE]

hideAllData(u) == [e \in UiFlags |-> IF e \in DataSections \cup {"weatherIcon"} THEN TRUE ELSE u[e]]

showAllData(u) == [e \in UiFlags |-> IF e \in DataSections \cup {"weatherIcon"} THEN FALSE ELSE u[e]]

showError(u) == [hideAllData(u) EXCEPT !["loadingCon"] = TRUE, !["errorFetchCon"] = FALSE]

showSuccess(u) == showAllData([u EXCEPT !["loadingCon"] = TRUE, !["errorFetchCon"] = TRUE])

showLoading(u) ==
    [u EXCEPT !["loadingCon"] = FALSE, !["bgShow"] = FALSE,
              !["mainContToday"] = TRUE, !["weatherIcon"] = TRUE]

showNoResultAsError(u) == showError(hideSearchLoading(u))

\* the no-results branch of fetchTodayWeather, after its wait
showNoResult(u) ==
    [hideAllData(hideSearchLoading(u)) EXCEPT
        !["mainContent"] = TRUE, !["errorFetchCon"] = TRUE, !["noResult"] = FALSE]

\* the class changes at the end of a successful render
showRendered(u) ==
    showSuccess(hideSearchLoading(
        [u EXCEPT !["loadingCon"] = TRUE, !["bgShow"] = TRUE, !["weatherIcon"] = FALSE,
                  !["mainContToday"] = FALSE, !["errorFetchCon"] = TRUE]))

\* the synchronous head of fetchTodayWeather
fetchStartUi(u, showLoader) ==
    LET u1 == [u EXCEPT !["errorFetchCon"] = TRUE, !["mainContent"] = FALSE,
                        !["searchCon"] = FALSE, !["noResult"] = TRUE]
    IN IF showLoader THEN showLoading(u1) ELSE u1

\* ------------------------------------------------------------------ state
VARIABLES
    booted,             \* the top-level statements of the script have run
    latestRequestId,
    lastCity,
    lastWeatherData,
    currentUnits,
    prefs,              \* localStorage "unitPreferences", by section label
    selected,           \* the option with class "selected" of each section
    switchBtn,          \* text and dataset.state of the switch button
    ui,                 \* display-none classes, searchBtn.disabled, bg-show
    view,               \* what the forecast regions of the page show
    tasks,              \* the invocations of fetchTodayWeather, in call order
    timers,             \* pending setTimeout timers, in creation order
    win                 \* a function called on its own: arguments and results

mainVars == <<booted, latestRequestId, lastCity, lastWeatherData, currentUnits, prefs,
              selected, switchBtn, ui, view, tasks, timers>>

vars == <<booted, latestRequestId, lastCity, lastWeatherData, currentUnits, prefs,
          selected, switchBtn, ui, view, tasks, timers, win>>

\* ------------------------------------------------------ forecast responses
\* The hourly series of the response to request r: r tags its temperatures.
HourlyOf(r) ==
    [time |-> <<[date |-> 1, hh |-> 0, mm |-> 0], [date |-> 1, hh |-> 23, mm |-> 0],
                [date |-> 2, hh |-> 0, mm |-> 0]>>,
     temperature_2m |-> <<10 * r + 1, 10 * r + 2, 10 * r + 3>>,
     weathercode |-> <<0, 1, 2>>]

NoHourly == [time |-> <<>>, temperature_2m |-> <<>>, weathercode |-> <<>>]

Payload(r, cur, hou, dai, hourly, dailyTime) ==
    [id |-> r, hasCurrent |-> cur, hasHourly |-> hou, hasDaily |-> dai,
     hourly |-> hourly, dailyTime |-> dailyTime]

NoBody == Payload(0, FALSE, FALSE, FALSE, NoHourly, <<>>)

\* The JSON bodies the forecast endpoint may answer request r with.
Payloads(r) ==
    { Payload(r, TRUE, TRUE, TRUE, HourlyOf(r), <<1, 2>>),
      Payload(r, FALSE, TRUE, TRUE, HourlyOf(r), <<1, 2>>),
      Payload(r, TRUE, FALSE, TRUE, NoHourly, <<1, 2>>),
      Payload(r, TRUE, TRUE, FALSE, HourlyOf(r), <<>>) }

NowHours == {0, 5}      \* new Date().getHours() at a render

\* --------------------------------------------------------------- the tasks
\* showLoader is read only before the first await: it is not kept.
NewTask(id, city) ==
    [requestId |-> id, city |-> city, pc |-> "geo_fetch",
     geoBody |-> "none", location |-> "unset", units |-> DefaultUnits,
     body |-> NoBody, error |-> "none", geoCalls |-> 1, fcCalls |-> 0]

LeaveTryRetrying(t, at) ==
    [NewTask(t.requestId, t.city) EXCEPT
        !.pc = "geo_fetch", !.geoCalls = t.geoCalls + 1, !.fcCalls = t.fcCalls]

\* The constants declared in the try block go out of scope when it is left.
LeaveTry(t, at) ==
    [NewTask(t.requestId, t.city) EXCEPT
        !.pc = at, !.geoCalls = t.geoCalls, !.fcCalls = t.fcCalls]

\* A return: the frame's parameters and locals are gone (requestId stays as
\* the name of the invocation), the network calls it made remain made.
Return(t, at) ==
    [NewTask(t.requestId, "") EXCEPT
        !.pc = at, !.geoCalls = t.geoCalls, !.fcCalls = t.fcCalls]

StaleReturns == {"ret_stale541", "ret_stale581", "ret_stale633"}

Returned == StaleReturns \cup {"ret_noresult", "ret_ok", "ret_err"}

NextRequestIdKept(n) == n

\* const requestId = ++latestRequestId
NextRequestId(n) == n + 1

IsStaleNever(requestId, latest) == FALSE

IsStaleIfGreater(requestId, latest) == requestId > latest

IsStaleIfLatest(requestId, latest) == requestId = latest

\* requestId !== latestRequestId
IsStale(requestId, latest) == requestId # latest

\* the awaits and waits that the try block of fetchTodayWeather encloses
InTryFromForecast(at) == at \in {"fc_fetch", "fc_json", "nr_wait", "ok_wait"}

InTry(at) == at \in {"geo_fetch", "geo_json", "fc_fetch", "fc_json", "nr_wait", "ok_wait"}

\* a throw: inside the try block the catch clause takes the error and starts
\* its wait; anywhere else the promise of fetchTodayWeather is rejected
Throw(t, err) ==
    IF InTry(t.pc) THEN [LeaveTry(t, "catch_wait") EXCEPT !.error = err]
    ELSE Return(t, "rejected")

Timer(i, ms) == [task |-> i, ms |-> ms]

CatchWaitShort(t, i, ts) == IF InTry(t.pc) THEN Append(ts, Timer(i, OKDelay)) ELSE ts

\* await wait(3000) in the catch clause
CatchWait(t, i, ts) == IF InTry(t.pc) THEN Append(ts, Timer(i, ErrDelay)) ELSE ts

\* setTimeout order: a timer fires before every timer created after it
\* whose delay is not shorter.
CanFire(k) == \A j \in 1..(k - 1) : timers[j].ms > timers[k].ms

RemoveAt(s, k) == [j \in 1..(Len(s) - 1) |-> IF j < k THEN s[j] ELSE s[j + 1]]

\* ------------------------------------------------------------------- Init
TemplateView ==
    [info |-> [id |-> 0, wind |-> "", precip |-> ""], daily |-> 0,
     menuDates |-> <<NoDate>>, active |-> 0, trigger |-> "Today",
     hours |-> <<>>, header |-> [id |-> 0, location |-> ""]]

\* The page as the template gives it.  The classes the start-up code sets
\* are overwritten before anything reads them; the four data sections it
\* does not touch may be shown or hidden.
TemplateUis ==
    { [e \in UiFlags |->
         IF e \in {"todaySection", "infoCardsCon", "forecast", "hourForecast"} THEN e \in H
         ELSE e \in {"errorFetchCon", "noResult", "loadingCon", "searchLoading",
                     "mainContToday", "weatherIcon"}] :
      H \in {{}, {"todaySection", "infoCardsCon", "forecast", "hourForecast"}} }

\* What an earlier session can have left in localStorage: nothing, or one
\* entry per section (here: every section imperial).
StoredPrefs == { NoPrefsMap, [l \in Labels |-> "imperial"] }

\* win in the specifications that call no function on its own
WinIdle ==
    [fn |-> "none", hourly |-> NoHourly, dateStr |-> NoDate, out |-> <<>>, done |-> FALSE]

MainInit ==
    /\ booted = FALSE
    /\ latestRequestId = 0
    /\ lastCity = "Amman"
    /\ lastWeatherData = NoBody
    /\ currentUnits = DefaultUnits
    /\ prefs \in StoredPrefs
    /\ selected = Metric
    /\ switchBtn = [text |-> "Switch to Imperial", state |-> "metric"]
    /\ ui \in TemplateUis
    /\ view = TemplateView
    /\ tasks = <<>>
    /\ timers = <<>>

Init == MainInit /\ win = WinIdle

\* ------------------------------------------------------- fetchTodayWeather
MaxClicks == 3          \* clicks in the units menu in one behaviour
MaxIssued == 3          \* requests issued where the requested city is followed

\* The invocations of fetchTodayWeather a behaviour may hold: the start-up
\* call and MaxClicks clicks where the units menu is explored, MaxIssued where
\* the requested city is followed, MaxRequests elsewhere.
RequestCap ==
    IF win.fn = "units" THEN MaxClicks + 1
    ELSE IF win.fn = "city" THEN MaxIssued
    ELSE MaxRequests

\* The call itself: everything up to the first await (the geocoding fetch).
\* u is the display state the caller has prepared, after(u) what the caller
\* does to it once the call has returned its promise.
CallFetch(city, showLoader, u) ==
    /\ Len(tasks) < RequestCap
    /\ lastCity' = city
    /\ latestRequestId' = NextRequestId(latestRequestId)
    /\ tasks' = Append(tasks, NewTask(NextRequestId(latestRequestId), city))
    /\ ui' = u

\* restorePreferences(); updateSwitchButton(); fetchTodayWeather("Amman")
Startup ==
    /\ ~booted
    /\ booted' = TRUE
    /\ selected' = restorePreferences(prefs, selected)
    /\ switchBtn' = SwitchButtonFor(selected')
    /\ CallFetch("Amman", TRUE, fetchStartUi(hideSearchLoading(ui), TRUE))
    /\ UNCHANGED <<lastWeatherData, currentUnits, prefs, view, timers, win>>

\* ------------------------------------------------------------- user events
TrimNothing(input) == input

\* searchInput.value.trim()
Trim(input) == IF input = "  " THEN "" ELSE input

\* what the search field holds at a click: a city other than the start-up
\* city, or blanks
SearchInputs == {"Oslo", "  "}

\* searchBtn click (also through Enter); a disabled button gets no click
SearchClick(input) ==
    /\ booted
    /\ ~ui["searchBtnDisabled"]
    /\ IF Trim(input) = ""
       THEN UNCHANGED <<lastCity, latestRequestId, tasks, ui>>
       ELSE CallFetch(Trim(input), TRUE,
                      fetchStartUi(showLoading(showSearchLoading(ui)), TRUE))
    /\ UNCHANGED <<booted, lastWeatherData, currentUnits, prefs, selected, switchBtn,
                   view, timers, win>>

\* retryBtn click
RetryClick ==
    /\ booted
    /\ CallFetch(lastCity, TRUE,
                 fetchStartUi([ui EXCEPT !["errorFetchCon"] = TRUE, !["mainContent"] = FALSE,
                                         !["searchCon"] = FALSE], TRUE))
    /\ UNCHANGED <<booted, lastWeatherData, currentUnits, prefs, selected, switchBtn,
                   view, timers, win>>

SelectAndSaveDisplayed(sel) ==
    /\ selected' = sel
    /\ switchBtn' = SwitchButtonFor(sel)
    /\ prefs' = PrefsOf(sel)
    /\ CallFetch(view.header.location, FALSE,
                 hideSearchLoading(fetchStartUi(hideSearchLoading(ui), FALSE)))
    /\ UNCHANGED <<booted, lastWeatherData, currentUnits, view, timers, win>>

SelectAndSaveWithLoader(sel) ==
    /\ selected' = sel
    /\ switchBtn' = SwitchButtonFor(sel)
    /\ prefs' = PrefsOf(sel)
    /\ CallFetch(lastCity, TRUE,
                 hideSearchLoading(fetchStartUi(hideSearchLoading(ui), TRUE)))
    /\ UNCHANGED <<booted, lastWeatherData, currentUnits, view, timers, win>>

\* updateSwitchButton(); savePreferences() with the selection sel
SelectAndSave(sel) ==
    /\ selected' = sel
    /\ switchBtn' = SwitchButtonFor(sel)
    /\ prefs' = PrefsOf(sel)
    /\ CallFetch(lastCity, FALSE,
                 hideSearchLoading(fetchStartUi(hideSearchLoading(ui), FALSE)))
    /\ UNCHANGED <<booted, lastWeatherData, currentUnits, view, timers, win>>

\* click on the option of kind k in the section labelled l
OptionClick(l, k) ==
    /\ booted
    /\ SelectAndSave([selected EXCEPT ![l] = k])

SwitchClickFromImperial ==
    /\ booted
    /\ LET useMetric == switchBtn.state = "imperial"
       IN SelectAndSave([l \in Labels |-> IF useMetric THEN "metric" ELSE "imperial"])

\* switchBtn click
SwitchClick ==
    /\ booted
    /\ LET useMetric == switchBtn.state # "metric"
       IN SelectAndSave([l \in Labels |-> IF useMetric THEN "metric" ELSE "imperial"])

\* the text of the k-th menu item
ItemText(dates, k) ==
    IF dates[k] = NoDate THEN "TemplateItem" ELSE IF k = 1 THEN "Today" ELSE "Weekday"

MenuClickRefetching(k) ==
    /\ booted
    /\ k \in 1..Len(view.menuDates)
    /\ view' = [view EXCEPT
                  !.active = k,
                  !.trigger = ItemText(view.menuDates, k),
                  !.hours = IF lastWeatherData = NoBody THEN @
                            ELSE getHourlyForDay(lastWeatherData.hourly, view.menuDates[k])]
    /\ CallFetch(lastCity, FALSE, ui)
    /\ UNCHANGED <<booted, lastWeatherData, currentUnits, prefs,
                   selected, switchBtn, timers, win>>

\* click on the k-th item of the day menu
MenuClick(k) ==
    /\ booted
    /\ k \in 1..Len(view.menuDates)
    /\ view' = [view EXCEPT
                  !.active = k,
                  !.trigger = ItemText(view.menuDates, k),
                  !.hours = IF lastWeatherData = NoBody THEN @
                            ELSE getHourlyForDay(lastWeatherData.hourly, view.menuDates[k])]
    /\ UNCHANGED <<booted, latestRequestId, lastCity, lastWeatherData, currentUnits, prefs,
                   selected, switchBtn, ui, tasks, timers, win>>

\* ------------------------------------------------------ the network awaits
AtAwait(i, at) == i \in 1..Len(tasks) /\ tasks[i].pc = at

\* getCoordinates: await fetch(url) settles
GeoFetchSettles(i, outcome) ==
    /\ AtAwait(i, "geo_fetch")
    /\ IF outcome \in {"empty", "found"}
       THEN /\ tasks' = [tasks EXCEPT ![i] = [@ EXCEPT !.pc = "geo_json", !.geoBody = outcome]]
            /\ UNCHANGED timers
       ELSE /\ tasks' = [tasks EXCEPT ![i] =
                           Throw(@, IF outcome = "notok" THEN "Geocoding failed"
                                    ELSE "Failed to fetch")]
            /\ timers' = CatchWait(tasks[i], i, timers)
    /\ UNCHANGED <<booted, latestRequestId, lastCity, lastWeatherData, currentUnits, prefs,
                   selected, switchBtn, ui, view, win>>

\* getCoordinates: await response.json() settles; fetchTodayWeather goes on
\* to its first checkpoint and, when it has a location, to the forecast fetch
GeoJsonSettles(i) ==
    /\ AtAwait(i, "geo_json")
    /\ LET t == tasks[i]
           location == IF t.geoBody = "empty" THEN "null" ELSE t.city
       IN IF IsStale(t.requestId, latestRequestId)
          THEN /\ tasks' = [tasks EXCEPT ![i] = Return(t, "ret_stale541")]
               /\ UNCHANGED <<timers, currentUnits>>
          ELSE IF location = "null"
          THEN /\ tasks' = [tasks EXCEPT ![i] = [t EXCEPT !.pc = "nr_wait", !.location = location]]
               /\ timers' = Append(timers, Timer(i, OKDelay))
               /\ UNCHANGED currentUnits
          ELSE /\ currentUnits' = getUnitParams(prefs)
               /\ tasks' = [tasks EXCEPT ![i] =
                              [t EXCEPT !.pc = "fc_fetch", !.location = location,
                                        !.units = getUnitParams(prefs),
                                        !.fcCalls = @ + 1]]
               /\ UNCHANGED timers
    /\ UNCHANGED <<booted, latestRequestId, lastCity, lastWeatherData, prefs,
                   selected, switchBtn, ui, view, win>>

\* await fetch(url) of the forecast settles
ForecastFetchSettles(i, outcome) ==
    /\ AtAwait(i, "fc_fetch")
    /\ IF outcome = "ok"
       THEN /\ tasks' = [tasks EXCEPT ![i] = [@ EXCEPT !.pc = "fc_json"]]
            /\ UNCHANGED timers
       ELSE /\ tasks' = [tasks EXCEPT ![i] =
                           Throw(@, IF outcome = "notok" THEN "Weather fetch failed"
                                    ELSE "Failed to fetch")]
            /\ timers' = CatchWait(tasks[i], i, timers)
    /\ UNCHANGED <<booted, latestRequestId, lastCity, lastWeatherData, currentUnits, prefs,
                   selected, switchBtn, ui, view, win>>

\* await res.json() settles: the payload check, the snapshot, the wait
ForecastJsonSettles(i, data) ==
    /\ AtAwait(i, "fc_json")
    /\ data \in Payloads(tasks[i].requestId)
    /\ IF ~data.hasCurrent \/ ~data.hasHourly
          THEN /\ tasks' = [tasks EXCEPT ![i] = Throw(@, "Missing weather data")]
               /\ timers' = CatchWait(tasks[i], i, timers)
               /\ UNCHANGED lastWeatherData
          ELSE /\ lastWeatherData' = data
               /\ tasks' = [tasks EXCEPT ![i] = [@ EXCEPT !.pc = "ok_wait", !.body = data]]
               /\ timers' = Append(timers, Timer(i, OKDelay))
    /\ UNCHANGED <<booted, latestRequestId, lastCity, currentUnits, prefs,
                   selected, switchBtn, ui, view, win>>

\* ---------------------------------------------------------------- renders
\* hourly.time.findIndex(t => new Date(t).getHours() === now.getHours()),
\* counted from 1; 0 when there is none
RECURSIVE FindHour(_, _, _)
FindHour(times, hour, i) ==
    IF i > Len(times) THEN 0
    ELSE IF GetHours(times[i]) = hour THEN i
    ELSE FindHour(times, hour, i + 1)

InfoCardsMetric(old, data, units, now) ==
    IF FindHour(data.hourly.time, now, 1) = 0 THEN old
    ELSE [id |-> data.id, wind |-> "km/h", precip |-> "mm"]

\* updateInfoCards: the cards keep their content when no hour matches
InfoCards(old, data, units, now) ==
    IF FindHour(data.hourly.time, now, 1) = 0 THEN old
    ELSE [id |-> data.id,
          wind |-> IF units.wind = "mph" THEN "mph" ELSE "km/h",
          precip |-> IF units.precipitation = "inch" THEN "in" ELSE "mm"]

\* updateDailyForecast: the response the day cards were written from
DailyCards(old, data) ==
    IF ~data.hasDaily \/ data.dailyTime = <<>> THEN old ELSE data.id

RenderedKeepingHours(v, data, snapshot, location, units, now) ==
    [info |-> InfoCards(v.info, data, units, now),
     daily |-> DailyCards(v.daily, data),
     menuDates |-> data.dailyTime,
     active |-> IF data.dailyTime = <<>> THEN 0 ELSE 1,
     trigger |-> IF data.dailyTime = <<>> THEN v.trigger ELSE "Today",
     hours |-> v.hours,
     header |-> [id |-> data.id, location |-> location]]

\* populateDaysDropdown, setHourlyToToday and the today header.  The hour
\* cards are filled from lastWeatherData (snapshot), everything else from data.
Rendered(v, data, snapshot, location, units, now) ==
    LET times == data.dailyTime
    IN [info |-> InfoCards(v.info, data, units, now),
        daily |-> DailyCards(v.daily, data),
        menuDates |-> times,
        active |-> IF times = <<>> THEN 0 ELSE 1,
        trigger |-> IF times = <<>> THEN v.trigger ELSE "Today",
        hours |-> IF times = <<>> THEN v.hours
                  ELSE getHourlyForDay(snapshot.hourly, times[1]),
        header |-> [id |-> data.id, location |-> location]]

\* ------------------------------------------------------------- the timers
TimerOf(k, at) ==
    /\ k \in 1..Len(timers)
    /\ CanFire(k)
    /\ tasks[timers[k].task].pc = at

\* the wait of the no-results branch is over
NoResultTimer(k) ==
    /\ TimerOf(k, "nr_wait")
    /\ timers' = RemoveAt(timers, k)
    /\ tasks' = [tasks EXCEPT ![timers[k].task] = Return(@, "ret_noresult")]
    /\ ui' = showNoResult(ui)
    /\ UNCHANGED <<booted, latestRequestId, lastCity, lastWeatherData, currentUnits, prefs,
                   selected, switchBtn, view, win>>

\* the wait after the snapshot is over: checkpoint, then the render
RenderTimer(k, now) ==
    /\ TimerOf(k, "ok_wait")
    /\ LET i == timers[k].task
           t == tasks[i]
           data == t.body
       IN IF IsStale(t.requestId, latestRequestId)
          THEN /\ tasks' = [tasks EXCEPT ![i] = Return(t, "ret_stale581")]
               /\ timers' = RemoveAt(timers, k)
               /\ UNCHANGED <<ui, view>>
          ELSE IF ~data.hasDaily
          THEN \* data.daily.time throws a TypeError in the populateDaysDropdown call
               /\ view' = [view EXCEPT !.info = InfoCards(@, data, currentUnits, now)]
               /\ tasks' = [tasks EXCEPT ![i] = Throw(t, "TypeError")]
               /\ timers' = CatchWait(t, i, RemoveAt(timers, k))
               /\ UNCHANGED ui
          ELSE /\ view' = Rendered(view, data, lastWeatherData, t.location, currentUnits, now)
               /\ ui' = showRendered(ui)
               /\ tasks' = [tasks EXCEPT ![i] = Return(t, "ret_ok")]
               /\ timers' = RemoveAt(timers, k)
    /\ UNCHANGED <<booted, latestRequestId, lastCity, lastWeatherData, currentUnits, prefs,
                   selected, switchBtn, win>>

\* the wait of the catch clause is over: checkpoint, then the error panel
CatchTimer(k) ==
    /\ TimerOf(k, "catch_wait")
    /\ LET i == timers[k].task
           t == tasks[i]
       IN IF IsStale(t.requestId, latestRequestId)
          THEN /\ tasks' = [tasks EXCEPT ![i] = Return(t, "ret_stale633")]
               /\ UNCHANGED ui
          ELSE /\ tasks' = [tasks EXCEPT ![i] = Return(t, "ret_err")]
               /\ ui' = showError(hideSearchLoading(ui))
    /\ timers' = RemoveAt(timers, k)
    /\ UNCHANGED <<booted, latestRequestId, lastCity, lastWeatherData, currentUnits, prefs,
                   selected, switchBtn, view, win>>

\* ------------------------------------------------------------------- Next
\* The sections whose options are clicked one by one; the switch button and
\* the stored preferences change the other sections too.
ClickedLabels == {"Wind Speed"}

Next ==
    \/ Startup
    \/ \E input \in SearchInputs : SearchClick(input)
    \/ RetryClick
    \/ \E l \in ClickedLabels, k \in {"metric", "imperial"} : OptionClick(l, k)
    \/ SwitchClick
    \/ \E k \in 1..2 : MenuClick(k)
    \/ \E i \in 1..MaxRequests, o \in {"reject", "notok", "empty", "found"} : GeoFetchSettles(i, o)
    \/ \E i \in 1..MaxRequests : GeoJsonSettles(i)
    \/ \E i \in 1..MaxRequests, o \in {"reject", "notok", "ok"} : ForecastFetchSettles(i, o)
    \/ \E i \in 1..MaxRequests, data \in UNION {Payloads(r) : r \in 1..MaxRequests} :
          ForecastJsonSettles(i, data)
    \/ \E k \in 1..MaxRequests : NoResultTimer(k)
    \/ \E k \in 1..MaxRequests, now \in NowHours : RenderTimer(k, now)
    \/ \E k \in 1..MaxRequests : CatchTimer(k)

Spec == Init /\ [][Next]_vars

\* ------------------------------------------- getHourlyForDay on its own
\* The time strings the windower is tried on: the last minute of day 0, the
\* first, a middle and the last minute of day 1, the first minute of day 2.
WinTimes ==
    { [date |-> 0, hh |-> 23, mm |-> 59], [date |-> 1, hh |-> 0, mm |-> 0],
      [date |-> 1, hh |-> 12, mm |-> 0], [date |-> 1, hh |-> 23, mm |-> 59],
      [date |-> 2, hh |-> 0, mm |-> 0] }

WinDates == {0, 1, 2, NoDate}

SeqsUpTo(S, n) == UNION { [1..m -> S] : m \in 0..n }

\* index-aligned arrays: sample i has temperature 20 + i and weather code i
WinHourly(times) ==
    [time |-> times,
     temperature_2m |-> [i \in 1..Len(times) |-> 20 + i],
     weathercode |-> [i \in 1..Len(times) |-> i]]

\* The hour cards before a render: all shown or all hidden, with the
\* template's content.
TemplateCards ==
    { [i \in 1..HourCards |-> [hidden |-> h, label |-> <<0, "">>, temp |-> 0, code |-> 0]] :
      h \in BOOLEAN }

\* the script has not run: the state a function is called on its own in
Unbooted ==
    /\ booted = FALSE
    /\ latestRequestId = 0
    /\ lastCity = "Amman"
    /\ lastWeatherData = NoBody
    /\ selected = Metric
    /\ switchBtn = [text |-> "Switch to Imperial", state |-> "metric"]
    /\ ui = CHOOSE u \in TemplateUis : ~u["forecast"]
    /\ view = TemplateView
    /\ tasks = <<>>
    /\ timers = <<>>

WinInit ==
    /\ win \in { [fn |-> "getHourlyForDay", hourly |-> WinHourly(ts), dateStr |-> d,
                  out |-> <<>>, done |-> FALSE,
                  cards |-> cs, parts |-> ps, threw |-> FALSE, rendered |-> FALSE] :
                 ts \in SeqsUpTo(WinTimes, MaxLen), d \in WinDates,
                 cs \in TemplateCards, ps \in BOOLEAN }
    /\ Unbooted
    /\ currentUnits = DefaultUnits
    /\ prefs = NoPrefsMap

WinCall ==
    /\ ~win.done
    /\ win' = [win EXCEPT !.out = getHourlyForDay(win.hourly, win.dateStr), !.done = TRUE]
    /\ UNCHANGED mainVars

\* renderHourly(hours) on the list getHourlyForDay returned
WinRender ==
    /\ win.done /\ ~win.rendered
    /\ LET r == renderHourly(win.cards, win.out, win.parts)
       IN win' = [win EXCEPT !.cards = r.cards, !.threw = r.threw, !.rendered = TRUE]
    /\ UNCHANGED mainVars

WinNext == WinCall \/ WinRender

WinSpec == WinInit /\ [][WinNext]_vars

\* ------------------------------------------------ the hour label on its own
\* The time strings whose hour is labelled: every hour of two days, on the
\* hour and on the half hour.
HourTimes == { [date |-> d, hh |-> h, mm |-> m] : d \in {1, 2}, h \in 0..23, m \in {0, 30} }

NoLabel == <<>>

HourInit ==
    /\ win \in { [fn |-> "displayHour", time |-> t, rendered |-> NoLabel, updated |-> NoLabel] :
                 t \in HourTimes }
    /\ Unbooted
    /\ currentUnits = DefaultUnits
    /\ prefs = NoPrefsMap

\* the label renderHourly writes for a sample of that time
HourRender ==
    /\ win.rendered = NoLabel
    /\ win' = [win EXCEPT !.rendered = displayHour(GetHours(win.time))]
    /\ UNCHANGED mainVars

\* the label updateHourlyForecast writes for the same time
HourUpdate ==
    /\ win.updated = NoLabel
    /\ win' = [win EXCEPT !.updated = displayHourOfUpdate(GetHours(win.time))]
    /\ UNCHANGED mainVars

HourNext == HourRender \/ HourUpdate

HourSpec == HourInit /\ [][HourNext]_vars

\* ------------------------------------------------ getUnitParams on its own
MaxCalls == 2           \* calls of getUnitParams in one behaviour

\* localStorage "unitPreferences": per section absent, "metric" or "imperial"
\* (no item at all is the map with every key absent)
PrefMaps == [Labels -> {"absent", "metric", "imperial"}]

AllUnits ==
    [temperature : {"celsius", "fahrenheit"}, wind : {"kmh", "mph"},
     precipitation : {"mm", "inch"}]

ParamsInit ==
    /\ win = [fn |-> "getUnitParams", ret |-> <<>>, after |-> <<>>]
    /\ Unbooted
    /\ currentUnits \in AllUnits
    /\ prefs \in PrefMaps

ParamsCallClearing ==
    /\ Len(win.ret) < MaxCalls
    /\ currentUnits' = getUnitParams(prefs)
    /\ prefs' = NoPrefsMap
    /\ win' = [win EXCEPT !.ret = Append(@, currentUnits'), !.after = Append(@, currentUnits')]
    /\ UNCHANGED <<booted, latestRequestId, lastCity, lastWeatherData,
                   selected, switchBtn, ui, view, tasks, timers>>

\* one call of getUnitParams(): currentUnits is written, its three fields
\* are returned
ParamsCall ==
    /\ Len(win.ret) < MaxCalls
    /\ currentUnits' = getUnitParams(prefs)
    /\ win' = [win EXCEPT !.ret = Append(@, currentUnits'), !.after = Append(@, currentUnits')]
    /\ UNCHANGED <<booted, latestRequestId, lastCity, lastWeatherData, prefs,
                   selected, switchBtn, ui, view, tasks, timers>>

ParamsNext == ParamsCall

ParamsSpec == ParamsInit /\ [][ParamsNext]_vars

\* ----------------------------------------------------------- the units menu
\* Start-up from every stored map, then clicks on the options of all three
\* sections and on the switch button; every click calls fetchTodayWeather,
\* whose geocoding may answer, so that getUnitParams runs for the latest call.
MenuInit ==
    /\ win = [fn |-> "units"]
    /\ Unbooted
    /\ currentUnits = DefaultUnits
    /\ prefs \in PrefMaps

MenuNext ==
    \/ Startup
    \/ \E l \in Labels, k \in {"metric", "imperial"} : OptionClick(l, k)
    \/ SwitchClick
    \/ \E i \in 1..(MaxClicks + 1) : GeoFetchSettles(i, "found")
    \/ \E i \in 1..(MaxClicks + 1) : GeoJsonSettles(i)

MenuSpec == MenuInit /\ [][MenuNext]_vars

\* ======================================================================
\* Properties
\* ======================================================================
\* task i takes a step (a network promise of it settles or a timer of it fires)
Acts(i) == i \in 1..Len(tasks) /\ tasks'[i] # tasks[i]

\* a later call of fetchTodayWeather exists
Superseded(i) == i < Len(tasks)

\* the request whose response an hour sample was taken from
SampleSource(h) == h.temperature \div 10

Checkpoints == {"geo_json", "ok_wait", "catch_wait"}

\* C1: every forecast value that a render step of fetchTodayWeather writes
\* (info cards, daily cards, day menu, hourly cards, today header) comes from
\* the response of the request with the highest id issued so far.
C1_RendersOnlyLatest ==
    [][\A i \in 1..Len(tasks) :
          (Acts(i) /\ tasks[i].pc = "ok_wait" /\ view' # view) =>
             /\ view'.header.id \in {view.header.id, latestRequestId}
             /\ view'.info.id \in {view.info.id, latestRequestId}
             /\ view'.daily \in {view.daily, latestRequestId}
             /\ view'.hours # view.hours =>
                   \A k \in 1..Len(view'.hours) :
                       SampleSource(view'.hours[k]) = latestRequestId]_vars

\* C2: a superseded request never mutates shared state: a step of a task
\* whose requestId is not latestRequestId writes neither lastWeatherData nor
\* currentUnits nor the display, and lastWeatherData is only ever assigned
\* the response of the latest request.
C2_StaleNeverWrites ==
    [][/\ \A i \in 1..Len(tasks) :
             (Acts(i) /\ IsStale(tasks[i].requestId, latestRequestId)) =>
                 UNCHANGED <<lastWeatherData, currentUnits, ui, view>>
       /\ lastWeatherData' # lastWeatherData =>
             lastWeatherData'.id = latestRequestId]_vars

\* C3: a request that was superseded while waiting never shows the no-results
\* panel, never shows the error panel, and never hides the main content or
\* the data sections.
C3_PanelsOnlyByLatest ==
    [][\A i \in 1..Len(tasks) :
          (Acts(i) /\ tasks[i].pc \in {"nr_wait", "catch_wait"}
                   /\ IsStale(tasks[i].requestId, latestRequestId)) =>
             \A e \in DataSections \cup {"noResult", "errorFetchCon", "mainContent"} :
                 ui'[e] = ui[e]]_vars

\* everything but the tasks and the timers
shared == <<booted, latestRequestId, lastCity, lastWeatherData, currentUnits, prefs,
            selected, switchBtn, ui, view, win>>

\* C4 (as claimed): a request that finds itself superseded at a checkpoint
\* hides the loading indicators (spinner hidden, search button enabled,
\* loading container hidden) before it returns, and does nothing else.
C4_StaleCleansUp ==
    [][\A i \in 1..Len(tasks) :
          (Acts(i) /\ tasks[i].pc \in Checkpoints
                   /\ IsStale(tasks[i].requestId, latestRequestId)) =>
             /\ ui' = [hideSearchLoading(ui) EXCEPT !["loadingCon"] = TRUE]
             /\ tasks'[i].pc \in StaleReturns]_vars

\* C4 (amended): a request that reaches a checkpoint after a later call of
\* fetchTodayWeather returns there and changes nothing at all; the loading
\* indicators stay as they are.
C4_StaleReturnsSilently ==
    [][\A i \in 1..Len(tasks) :
          (Acts(i) /\ tasks[i].pc \in Checkpoints /\ Superseded(i)) =>
             /\ tasks'[i].pc \in StaleReturns
             /\ UNCHANGED shared
             /\ \A j \in 1..Len(tasks) : j # i => tasks'[j] = tasks[j]]_vars

C4_Witness ==
    \E i \in 1..Len(tasks) :
        /\ tasks[i].pc \in StaleReturns
        /\ ~ui["loadingCon"]
        /\ tasks[Len(tasks)].pc = "geo_fetch"

\* C5: latestRequestId starts at 0; every call of fetchTodayWeather raises it
\* by exactly 1 and takes the new value as its requestId; nothing else
\* changes it; the ids of distinct requests are pairwise distinct.
C5_CounterCountsCalls ==
    /\ latestRequestId = 0
    /\ [][/\ Len(tasks') \in {Len(tasks), Len(tasks) + 1}
          /\ Len(tasks') = Len(tasks) => latestRequestId' = latestRequestId
          /\ Len(tasks') = Len(tasks) + 1 =>
                /\ latestRequestId' = latestRequestId + 1
                /\ tasks'[Len(tasks')].requestId = latestRequestId'
          /\ \A i \in 1..Len(tasks) : tasks'[i].requestId = tasks[i].requestId
          /\ \A i, j \in 1..Len(tasks') :
                i # j => tasks'[i].requestId # tasks'[j].requestId]_vars

C5_Witness == Len(tasks) >= 2 /\ latestRequestId >= 2

\* C6: the staleness test of a request is true exactly when a later call of
\* fetchTodayWeather was made; once a request exists, exactly one request
\* (the last one) is current.
C6_StaleIffSuperseded ==
    /\ \A i \in 1..Len(tasks) :
          IsStale(tasks[i].requestId, latestRequestId) <=> Superseded(i)
    /\ tasks # <<>> =>
          Cardinality({i \in 1..Len(tasks) :
                          ~IsStale(tasks[i].requestId, latestRequestId)}) = 1

C6_Witness ==
    \E i, j \in 1..Len(tasks) :
        /\ tasks[i].pc \in Checkpoints /\ Superseded(i)
        /\ tasks[j].pc \in Checkpoints /\ ~Superseded(j)

AllDataHidden(u) == \A e \in DataSections \cup {"weatherIcon"} : u[e]

\* C7: for a request that is still current when its outcome is displayed, an
\* empty geocoding result leads to the no-results panel and not to the error
\* panel; a failed geocoding or forecast call, a payload without
\* current_weather or hourly, and an exception during rendering lead to the
\* error panel with all data sections hidden; no exception escapes
\* fetchTodayWeather.
C7_FailuresShowPanels ==
    [][\A i \in 1..Len(tasks) :
          /\ tasks'[i].pc # "rejected"
          /\ tasks'[i].error # "none" <=> tasks'[i].pc = "catch_wait"
          /\ (Acts(i) /\ tasks'[i].pc = "ok_wait") =>
                /\ tasks[i].pc = "fc_json"
                /\ tasks'[i].body.hasCurrent /\ tasks'[i].body.hasHourly
          /\ (Acts(i) /\ tasks'[i].pc = "ret_ok") =>
                tasks[i].pc = "ok_wait" /\ tasks[i].body.hasDaily
          /\ (Acts(i) /\ ~Superseded(i)) =>
                /\ (tasks[i].pc = "geo_json" /\ tasks[i].geoBody = "empty") =>
                      tasks'[i].pc = "nr_wait"
                /\ tasks[i].pc = "nr_wait" =>
                      /\ tasks'[i].pc = "ret_noresult"
                      /\ ~ui'["noResult"] /\ ui'["errorFetchCon"]
                /\ tasks[i].pc = "catch_wait" =>
                      /\ tasks'[i].pc = "ret_err"
                      /\ ~ui'["errorFetchCon"] /\ AllDataHidden(ui')]_vars

C7_Witness ==
    \E i \in 1..Len(tasks) :
        /\ tasks[i].pc = "ret_err" /\ ~Superseded(i)
        /\ ~ui["errorFetchCon"] /\ AllDataHidden(ui)
        /\ view.info.id = tasks[i].requestId

\* C8 (as claimed): a request whose geocoding returns no result shows the
\* no-results panel, leaves lastWeatherData as it was and issues no forecast
\* call.
C8_EmptyGeocodingShowsPanel ==
    [][\A i \in 1..Len(tasks) :
          /\ (Acts(i) /\ tasks[i].pc = "geo_json" /\ tasks[i].geoBody = "empty") =>
                /\ tasks'[i].pc = "nr_wait"
                /\ tasks'[i].fcCalls = 0
                /\ UNCHANGED lastWeatherData
          /\ (Acts(i) /\ tasks[i].pc = "nr_wait") =>
                /\ tasks'[i].pc = "ret_noresult" /\ ~ui'["noResult"]
                /\ tasks'[i].fcCalls = 0
                /\ UNCHANGED lastWeatherData]_vars

\* C8 (amended): a request whose geocoding returns no result, unless a later
\* request was issued before its geocoding returned (then it returns at the
\* first checkpoint and shows nothing), shows the no-results panel after its
\* wait; in both cases none of its steps writes lastWeatherData and it
\* issues no forecast call.
C8_EmptyGeocodingFrame ==
    [][\A i \in 1..Len(tasks) :
          /\ (Acts(i) /\ tasks[i].pc = "geo_json" /\ tasks[i].geoBody = "empty") =>
                /\ tasks'[i].pc = IF Superseded(i) THEN "ret_stale541" ELSE "nr_wait"
                /\ tasks'[i].fcCalls = 0
                /\ UNCHANGED <<lastWeatherData, ui>>
          /\ (Acts(i) /\ tasks[i].pc = "nr_wait") =>
                /\ tasks'[i].pc = "ret_noresult" /\ ~ui'["noResult"]
                /\ tasks'[i].fcCalls = 0
                /\ UNCHANGED lastWeatherData]_vars

C8_Witness ==
    \E i \in 1..Len(tasks) :
        /\ tasks[i].pc = "ret_noresult" /\ tasks[i].fcCalls = 0
        /\ ~ui["noResult"]
        /\ lastWeatherData # NoBody

\* ------------------------------------------------------------ the windower
\* s is t with some elements left out
IsSubsequence(s, t) ==
    \E f \in [1..Len(s) -> 1..Len(t)] :
        /\ \A k \in 1..Len(s) : s[k] = t[f[k]]
        /\ \A k \in 1..(Len(s) - 1) : f[k] < f[k + 1]

\* C9: getHourlyForDay returns a subsequence of the input samples in their
\* order, every returned sample has the calendar date dayKey, and the result
\* is not longer than the input.
C9_SliceIsSubsequenceOfDay ==
    win.done =>
        /\ IsSubsequence(win.out, MapHourly(win.hourly))
        /\ \A k \in 1..Len(win.out) : win.out[k].time.date = win.dateStr
        /\ Len(win.out) <= Len(win.hourly.time)

C9_Witness ==
    /\ win.done
    /\ Len(win.out) = 2 /\ Len(win.hourly.time) = 3
    /\ win.hourly.time[2].date # win.dateStr

\* a <= b for time strings of equal form, compared field by field
TimeLE(a, b) ==
    \/ a.date < b.date
    \/ a.date = b.date /\ a.hh < b.hh
    \/ a.date = b.date /\ a.hh = b.hh /\ a.mm <= b.mm

\* the indices of the samples from dayKey 00:00 to dayKey 23:59
DayIndices(times, dayKey) ==
    { i \in 1..Len(times) :
        /\ TimeLE([date |-> dayKey, hh |-> 0, mm |-> 0], times[i])
        /\ TimeLE(times[i], [date |-> dayKey, hh |-> 23, mm |-> 59]) }

\* C10: getHourlyForDay returns exactly the samples from dayKey 00:00 to
\* dayKey 23:59, both ends included, each with the temperature_2m and the
\* weathercode found at the index of its time.
C10_SliceIsExactlyTheDay ==
    win.done =>
        LET K == DayIndices(win.hourly.time, win.dateStr)
            Sample(i) == [time |-> win.hourly.time[i],
                          temperature |-> win.hourly.temperature_2m[i],
                          weathercode |-> win.hourly.weathercode[i]]
        IN /\ Len(win.out) = Cardinality(K)
           /\ \A i \in K :
                 win.out[Cardinality({j \in K : j <= i})] = Sample(i)

C10_Witness ==
    /\ win.done
    /\ \E a, b \in 1..Len(win.out) :
          /\ a < b
          /\ win.out[a].time = [date |-> win.dateStr, hh |-> 0, mm |-> 0]
          /\ win.out[b].time = [date |-> win.dateStr, hh |-> 23, mm |-> 59]
          /\ win.out[b].temperature # win.out[a].temperature + (b - a)

\* C11: getHourlyForDay returns the empty list for an empty hourly series and
\* for a dayKey that no sample has (the empty dayKey of a menu item without
\* date included); renderHourly of the empty list hides every hour card and
\* does not throw.
C11_EmptySliceHidesCards ==
    /\ (win.done /\ \A i \in 1..Len(win.hourly.time) :
                        win.hourly.time[i].date # win.dateStr) => win.out = <<>>
    /\ (win.rendered /\ win.out = <<>>) =>
          /\ ~win.threw
          /\ \A c \in 1..HourCards : win.cards[c].hidden

C11_Witness ==
    /\ win.rendered /\ win.out = <<>> /\ ~win.parts
    /\ win.dateStr = NoDate /\ Len(win.hourly.time) = MaxLen
    /\ \A c \in 1..HourCards : win.cards[c].hidden /\ win.cards[c].temp = 0

\* C12: for every hour 0..23 the label is defined: 12 AM for 0, h AM for
\* 1..11, 12 PM for 12, (h - 12) PM for 13..23 (11 AM for 11, 11 PM for 23);
\* renderHourly and updateHourlyForecast give the same label.
C12_DisplayHourLabels ==
    LET h == win.time.hh
        label == win.rendered
    IN /\ label # NoLabel =>
             /\ label \in (1..12) \X {"AM", "PM"}
             /\ label[1] = (IF h % 12 = 0 THEN 12 ELSE h % 12)
             /\ label[2] = (IF h \in 0..11 THEN "AM" ELSE "PM")
             /\ h = 0 => label = <<12, "AM">>
             /\ h = 11 => label = <<11, "AM">>
             /\ h = 12 => label = <<12, "PM">>
             /\ h = 23 => label = <<11, "PM">>
       /\ (label # NoLabel /\ win.updated # NoLabel) => win.updated = label

C12_Witness ==
    /\ win.time.hh = 12
    /\ win.rendered = <<12, "PM">> /\ win.updated = <<12, "PM">>

\* C13: getUnitParams takes each unit from its own key: fahrenheit iff
\* "Temperature" is "imperial", mph iff "Wind Speed" is "imperial", inch iff
\* "Precipitation" is "imperial"; an absent key, or no stored map, gives
\* celsius / kmh / mm; each of the 8 combinations is the result for some map.
C13_EachAxisFromItsKey ==
    /\ \A k \in 1..Len(win.ret) :
          LET r == win.ret[k]
          IN /\ r.temperature = "fahrenheit" <=> prefs["Temperature"] = "imperial"
             /\ r.temperature = "celsius" <=> prefs["Temperature"] # "imperial"
             /\ r.wind = "mph" <=> prefs["Wind Speed"] = "imperial"
             /\ r.wind = "kmh" <=> prefs["Wind Speed"] # "imperial"
             /\ r.precipitation = "inch" <=> prefs["Precipitation"] = "imperial"
             /\ r.precipitation = "mm" <=> prefs["Precipitation"] # "imperial"
             /\ prefs = NoPrefsMap => r = DefaultUnits
             /\ win.after[k] = r
    /\ \A c \in AllUnits : \E p \in PrefMaps : getUnitParams(p) = c

C13_Witness ==
    /\ Len(win.ret) = 1
    /\ prefs["Temperature"] = "absent" /\ prefs["Wind Speed"] = "imperial"
    /\ prefs["Precipitation"] = "metric"
    /\ currentUnits = [temperature |-> "celsius", wind |-> "mph", precipitation |-> "mm"]

ImperialSections == {l \in Labels : selected[l] = "imperial"}

\* C15: getCurrentSystem is "metric" when every section's selected option is
\* metric, "imperial" when every one is imperial, "mixed" in every other case;
\* "mixed" is that derived value and the switch button's dataset state only:
\* no entry of the stored map and no field of currentUnits ever holds it.
C15_MixedIsOnlyDerived ==
    /\ \A l \in Labels : selected[l] \in {"metric", "imperial"}
    /\ getCurrentSystem(selected) =
          (IF ImperialSections = {} THEN "metric"
           ELSE IF ImperialSections = Labels THEN "imperial" ELSE "mixed")
    /\ \A l \in Labels : prefs[l] \in {"absent", "metric", "imperial"}
    /\ booted => \A l \in Labels : prefs[l] = "absent" \/ prefs[l] = selected[l]
    /\ currentUnits \in AllUnits
    /\ \A i \in 1..Len(tasks) : tasks[i].units \in AllUnits

C15_Witness ==
    /\ getCurrentSystem(selected) = "mixed" /\ switchBtn.state = "mixed"
    /\ prefs = selected
    /\ currentUnits = [temperature |-> "fahrenheit", wind |-> "mph", precipitation |-> "mm"]

\* C16: after start-up and after every option click and switch click the
\* switch button agrees with the selection: "Switch to Imperial" / metric when
\* all three sections are metric, "Switch to Metric" / imperial when all three
\* are imperial, "Custom units" / mixed otherwise.
C16_SwitchButtonAgrees ==
    booted =>
        switchBtn =
           (IF Cardinality(ImperialSections) = 0
            THEN [text |-> "Switch to Imperial", state |-> "metric"]
            ELSE IF Cardinality(ImperialSections) = Cardinality(Labels)
            THEN [text |-> "Switch to Metric", state |-> "imperial"]
            ELSE [text |-> "Custom units", state |-> "mixed"])

C16_Witness ==
    /\ Len(tasks) = MaxClicks + 1
    /\ ImperialSections = {"Precipitation"}
    /\ switchBtn = [text |-> "Custom units", state |-> "mixed"]
    /\ prefs = selected

\* the network calls the invocations have issued so far
RECURSIVE TotalCalls(_)
TotalCalls(ts) ==
    IF ts = <<>> THEN 0 ELSE Head(ts).geoCalls + Head(ts).fcCalls + TotalCalls(Tail(ts))

\* C17: nothing is retried automatically: every invocation of
\* fetchTodayWeather issues exactly one geocoding call and at most one forecast
\* call; a request that has reached its outcome takes no further step; a new
\* request is issued only by a step that is no continuation of a request
\* (start-up or a user event); once every request has reached its outcome the
\* number of network calls grows only with a new request.
C17_NoAutomaticRetry ==
    [][/\ \A i \in 1..Len(tasks') :
             tasks'[i].geoCalls = 1 /\ tasks'[i].fcCalls \in {0, 1}
       /\ Len(tasks') >= Len(tasks)
       /\ \A i \in 1..Len(tasks) :
             /\ tasks[i].pc \in Returned => tasks'[i] = tasks[i]
             /\ tasks'[i].fcCalls >= tasks[i].fcCalls
       /\ Len(tasks') > Len(tasks) =>
             /\ timers' = timers
             /\ \A i \in 1..Len(tasks) : tasks'[i] = tasks[i]
       /\ ((\A i \in 1..Len(tasks) : tasks[i].pc \in Returned)
              /\ TotalCalls(tasks') # TotalCalls(tasks)) =>
             /\ Len(tasks') = Len(tasks) + 1
             /\ TotalCalls(tasks') = TotalCalls(tasks) + 1]_vars

C17_Witness ==
    /\ Len(tasks) = 2
    /\ tasks[1].pc = "ret_err" /\ tasks[1].fcCalls = 1
    /\ tasks[2].pc = "ret_noresult" /\ tasks[2].fcCalls = 0
    /\ TotalCalls(tasks) = 3 /\ timers = <<>>

\* the latest request has displayed a failure outcome
LatestFailed ==
    tasks # <<>> /\ tasks[Len(tasks)].pc \in {"ret_err", "ret_noresult"}

\* C18: no failure leaves the page stuck.  Once the latest request has
\* displayed its failure outcome (error panel or no-results panel) the search
\* button is enabled and the search spinner hidden, and a search, a retry, an
\* option click and a switch click are accepted; each of these events issues
\* a new request.
C18_NotStuckAfterFailure ==
    /\ [](LatestFailed =>
            /\ ~ui["searchBtnDisabled"] /\ ui["searchLoading"]
            /\ Len(tasks) < RequestCap =>
                  /\ ENABLED SearchClick("Oslo")
                  /\ ENABLED RetryClick
                  /\ ENABLED OptionClick("Wind Speed", "imperial")
                  /\ ENABLED SwitchClick)
    /\ [][(\/ SearchClick("Oslo") \/ RetryClick \/ SwitchClick
           \/ \E k \in {"metric", "imperial"} : OptionClick("Wind Speed", k)) =>
             /\ Len(tasks') = Len(tasks) + 1
             /\ latestRequestId' = latestRequestId + 1
             /\ tasks'[Len(tasks')].pc = "geo_fetch"
             /\ tasks'[Len(tasks')].requestId = latestRequestId']_vars

C18_Witness ==
    /\ Len(tasks) = 2 /\ lastCity = "Oslo"
    /\ tasks[1].pc \in {"ret_err", "ret_noresult"}
    /\ tasks[2].pc = "ret_err"
    /\ ~ui["searchBtnDisabled"] /\ ui["searchLoading"] /\ ~ui["errorFetchCon"]

\* C19: the two network calls of a request are sequential: the forecast call
\* is issued only in the step in which the request's geocoding has returned a
\* non-empty result and the request is still the latest one, with the
\* location of that result and the units resolved in that step; a request
\* whose geocoding fails or is empty, or that is superseded when its geocoding
\* returns, never issues a forecast call.
C19_ForecastOnlyAfterGeocoding ==
    [][\A i \in 1..Len(tasks) :
          /\ tasks'[i].fcCalls # tasks[i].fcCalls =>
                /\ tasks[i].pc = "geo_json" /\ tasks[i].geoBody = "found"
                /\ ~Superseded(i)
                /\ tasks[i].fcCalls = 0 /\ tasks'[i].fcCalls = 1
                /\ tasks'[i].pc = "fc_fetch"
                /\ tasks'[i].location = tasks[i].city
                /\ tasks'[i].units = getUnitParams(prefs)
          /\ tasks[i].pc \in {"geo_fetch", "geo_json"} => tasks[i].fcCalls = 0
          /\ (Acts(i) /\ tasks[i].pc = "geo_fetch") => tasks'[i].fcCalls = 0
          /\ (Acts(i) /\ tasks[i].pc = "geo_json"
                      /\ (tasks[i].geoBody = "empty" \/ Superseded(i))) =>
                /\ tasks'[i].fcCalls = 0
                /\ tasks'[i].pc \in {"nr_wait", "ret_stale541"}
          /\ tasks[i].pc \in {"nr_wait", "ret_stale541", "ret_noresult"} =>
                tasks[i].fcCalls = 0 /\ tasks'[i].fcCalls = 0
          /\ (tasks[i].pc = "catch_wait" /\ tasks[i].fcCalls = 0) =>
                tasks'[i].fcCalls = 0]_vars

C19_Witness ==
    /\ Len(tasks) = 2
    /\ tasks[1].pc = "ret_stale541" /\ tasks[1].fcCalls = 0
    /\ tasks[2].pc = "fc_fetch" /\ tasks[2].fcCalls = 1 /\ tasks[2].location = "Oslo"

\* C20: issuing a new request leaves the network calls and the timers of the
\* older requests as they are (none is cancelled, none is held back), and the
\* completion of a call or timer of a superseded request is ignored: it
\* changes nothing but that request itself.
C20_OlderCallsCompleteIgnored ==
    [][/\ Len(tasks') > Len(tasks) =>
             /\ timers' = timers
             /\ \A i \in 1..Len(tasks) : tasks'[i] = tasks[i]
       /\ \A i \in 1..Len(tasks) :
             (Acts(i) /\ Superseded(i)) =>
                 /\ UNCHANGED shared
                 /\ \A j \in 1..Len(tasks) : j # i => tasks'[j] = tasks[j]]_vars

\* C21: start-up issues exactly one request, for "Amman"; with nothing stored
\* its forecast call asks for celsius / kmh / mm and the derived system state
\* is "metric"; when that request renders while it is still the latest,
\* lastWeatherData is its response and the hourly cards show the slice of
\* that response for daily.time[0], which is not empty when the response has
\* samples on that day.
C21_StartupRequest ==
    /\ [](~booted => (tasks = <<>> /\ latestRequestId = 0 /\ lastCity = "Amman"))
    /\ [][/\ (~booted /\ booted') =>
                /\ Len(tasks') = 1 /\ latestRequestId' = 1
                /\ tasks'[1].city = "Amman" /\ lastCity' = "Amman"
                /\ tasks'[1].geoCalls = 1 /\ tasks'[1].fcCalls = 0
                /\ prefs = NoPrefsMap =>
                      /\ getCurrentSystem(selected') = "metric"
                      /\ switchBtn'.state = "metric"
          /\ (booted /\ Len(tasks') > Len(tasks)) => Len(tasks) >= 1
          /\ (Acts(1) /\ tasks'[1].pc = "fc_fetch" /\ prefs = NoPrefsMap) =>
                tasks'[1].units =
                   [temperature |-> "celsius", wind |-> "kmh", precipitation |-> "mm"]
          /\ (Acts(1) /\ tasks'[1].pc = "ret_ok") =>
                LET D == tasks[1].body
                IN /\ lastWeatherData' = D /\ D.id = 1
                   /\ view'.hours = getHourlyForDay(D.hourly, D.dailyTime[1])
                   /\ (\E k \in 1..Len(D.hourly.time) :
                          D.hourly.time[k].date = D.dailyTime[1]) => view'.hours # <<>>]_vars

C21_Witness ==
    /\ Len(tasks) = 1 /\ tasks[1].pc = "ret_ok"
    /\ prefs = NoPrefsMap /\ switchBtn.state = "metric" /\ currentUnits = DefaultUnits
    /\ lastWeatherData.id = 1 /\ Len(view.hours) = 2
    /\ view.header = [id |-> 1, location |-> "Amman"]

\* C22: every successful render of a response D makes the menu item of
\* D.daily.time[0] the only active item, sets the day button to "Today", and
\* fills the hourly cards with getHourlyForDay(D.hourly, D.daily.time[0]): the
\* today slice of the response whose current and daily values the same step
\* renders.
C22_RenderShowsTodayOfSameResponse ==
    [][\A i \in 1..Len(tasks) :
          (Acts(i) /\ tasks'[i].pc = "ret_ok") =>
             LET D == tasks[i].body
             IN /\ view'.header.id = D.id /\ view'.daily = D.id
                /\ view'.menuDates = D.dailyTime
                /\ view'.active = 1 /\ view'.trigger = "Today"
                /\ view'.hours = getHourlyForDay(D.hourly, D.dailyTime[1])]_vars

\* the selections in which every section has a selected option
Selections == [Labels -> {"metric", "imperial"}]

\* C23: savePreferences writes one entry per section under the section's
\* label, "metric" or "imperial" as the selected option is; restorePreferences
\* of that map, from whatever selection the page starts with, selects in
\* every section the option that was selected at the save.
C23_SaveThenRestoreIsIdentity ==
    Len(tasks) >= 2 =>
        /\ DOMAIN prefs = Labels
        /\ \A l \in Labels : prefs[l] \in {"metric", "imperial"} /\ prefs[l] = selected[l]
        /\ \A sel0 \in Selections : restorePreferences(prefs, sel0) = selected
        /\ restorePreferences(prefs, Metric) = selected

C23_Witness ==
    /\ Len(tasks) >= 2
    /\ prefs = [l \in Labels |-> IF l = "Wind Speed" THEN "metric" ELSE "imperial"]
    /\ restorePreferences(prefs, Metric) = selected /\ selected # Metric

\* a timer of ms milliseconds of task i fires in this step
Fired(i, ms) ==
    \E k \in 1..Len(timers) :
        /\ timers[k] = Timer(i, ms)
        /\ \/ timers' = RemoveAt(timers, k)
           \/ timers' = Append(RemoveAt(timers, k), Timer(i, ErrDelay))

\* Every display of an outcome is the firing of a wait that was started when
\* a network response of the request arrived (or when its render threw) and
\* during which the request makes no network call; the wait before the
\* success render and the no-results panel takes OKDelay, the one before the
\* error panel errMs.
DelaySteps(errMs) ==
    \A i \in 1..Len(tasks) :
        /\ (Acts(i) /\ tasks'[i].pc \in {"ret_ok", "ret_noresult", "ret_err"}) =>
              /\ tasks[i].pc = (IF tasks'[i].pc = "ret_ok" THEN "ok_wait"
                                ELSE IF tasks'[i].pc = "ret_noresult" THEN "nr_wait"
                                ELSE "catch_wait")
              /\ Fired(i, IF tasks'[i].pc = "ret_err" THEN errMs ELSE OKDelay)
        /\ (Acts(i) /\ ui' # ui) => tasks'[i].pc \in {"ret_ok", "ret_noresult", "ret_err"}
        /\ (Acts(i) /\ tasks'[i].pc \in {"nr_wait", "ok_wait", "catch_wait"}) =>
              /\ tasks[i].pc \in {"geo_fetch", "geo_json", "fc_fetch", "fc_json", "ok_wait"}
              /\ timers' # <<>>
              /\ timers'[Len(timers')] =
                    Timer(i, IF tasks'[i].pc = "catch_wait" THEN errMs ELSE OKDelay)
        /\ tasks[i].pc \in {"nr_wait", "ok_wait", "catch_wait"} =>
              /\ tasks'[i].fcCalls = tasks[i].fcCalls
              /\ tasks'[i].geoCalls = tasks[i].geoCalls

\* C24 (as claimed): every outcome is displayed only after a delay that
\* follows the request's last network response, and the delay before the
\* error panel is as long as the delay before the success render.
C24_SameDelayBeforeError == [][DelaySteps(OKDelay)]_vars

\* C24 (amended): every outcome is displayed only after a delay that follows
\* the request's last network response; the delay before the success render
\* and before the no-results panel is 2000 ms, the delay before the error
\* panel is 3000 ms, which is longer.
C24_DelayBeforeEveryOutcome ==
    /\ OKDelay = 2000 /\ ErrDelay = 3000
    /\ [][DelaySteps(ErrDelay)]_vars

C24_Witness ==
    /\ Len(tasks) = 2
    /\ tasks[1].pc = "catch_wait" /\ timers = <<Timer(1, ErrDelay)>>
    /\ tasks[2].pc = "ret_noresult" /\ ~ui["noResult"]

\* C25: at every moment the displayed forecast regions derive from one
\* response: the hourly cards are a slice of the response whose dates fill
\* the day menu and whose values the daily cards and the today header show,
\* and lastWeatherData is the response that was last rendered.
C25_OneResponseDisplayed ==
    view.header.id # 0 =>
        /\ view.daily = view.header.id
        /\ \A k \in 1..Len(view.hours) : SampleSource(view.hours[k]) = view.header.id
        /\ lastWeatherData.id = view.header.id

\* C26: a request that ends in the error panel leaves lastWeatherData as it
\* was when the request was issued: no step of a request that goes on to
\* fail stores its response, so when the error panel of request r is shown
\* lastWeatherData is not the response to r.
C26_FailedRequestKeepsSnapshot ==
    [][\A i \in 1..Len(tasks) :
          /\ (Acts(i) /\ tasks'[i].pc = "catch_wait") => UNCHANGED lastWeatherData
          /\ (Acts(i) /\ tasks'[i].pc = "ret_err") =>
                /\ UNCHANGED lastWeatherData
                /\ lastWeatherData.id # tasks[i].requestId]_vars

\* one of the data sections is shown
DataVisible == \E e \in DataSections : ~ui[e]

\* the latest request has rendered successfully
LatestRendered == tasks # <<>> /\ tasks[Len(tasks)].pc = "ret_ok"

\* C27: the data sections, the no-results panel and the error panel are
\* pairwise never visible together; whenever the latest request has rendered
\* successfully the main content is visible and both panels are hidden.
C27_OneOutcomeVisible ==
    /\ ~(DataVisible /\ ~ui["noResult"])
    /\ ~(DataVisible /\ ~ui["errorFetchCon"])
    /\ ~(~ui["noResult"] /\ ~ui["errorFetchCon"])
    /\ LatestRendered =>
          /\ ~ui["mainContent"] /\ DataVisible
          /\ ui["noResult"] /\ ui["errorFetchCon"]

\* the suffixes that go with the units of a forecast call
SuffixesOf(units) ==
    [wind |-> IF units.wind = "mph" THEN "mph" ELSE "km/h",
     precip |-> IF units.precipitation = "inch" THEN "in" ELSE "mm"]

\* C28: whenever the info cards are written, the suffixes they get (from
\* currentUnits at that moment) are those of the wind and precipitation units
\* sent in the forecast call whose response is being rendered, whatever unit
\* changes and requests came in between.
C28_SuffixesMatchRequestedUnits ==
    [][view'.info # view.info =>
          \E i \in 1..Len(tasks) :
              /\ Acts(i) /\ tasks[i].pc = "ok_wait"
              /\ view'.info.id = tasks[i].body.id
              /\ view'.info.wind = SuffixesOf(tasks[i].units).wind
              /\ view'.info.precip = SuffixesOf(tasks[i].units).precip
              /\ currentUnits = tasks[i].units]_vars

C28_Witness ==
    /\ Len(tasks) = 2 /\ tasks[1].pc = "ret_stale541" /\ tasks[2].pc = "ret_ok"
    /\ view.info = [id |-> 2, wind |-> "mph", precip |-> "mm"]
    /\ currentUnits.wind = "mph" /\ currentUnits.precipitation = "mm"

\* every invocation has returned and no timer is pending
Quiescent ==
    /\ tasks # <<>>
    /\ timers = <<>>
    /\ \A i \in 1..Len(tasks) : tasks[i].pc \in Returned

DataDisplayed == DataVisible /\ ~ui["mainContent"]

\* what the page displays is the outcome of the invocation that ended in pc
DisplayIs(pc) ==
    /\ DataDisplayed <=> pc = "ret_ok"
    /\ ~ui["noResult"] <=> pc = "ret_noresult"
    /\ ~ui["errorFetchCon"] <=> pc = "ret_err"

\* C29: once every request has settled and every timer has fired, the
\* search-loading spinner is hidden, the search button is enabled, the loading
\* container is hidden, and exactly one of the data sections, the no-results
\* panel and the error panel is displayed: the outcome of the last request.
C29_QuiescentShowsLastOutcome ==
    Quiescent =>
        /\ ui["searchLoading"] /\ ~ui["searchBtnDisabled"] /\ ui["loadingCon"]
        /\ DisplayIs(tasks[Len(tasks)].pc)

\* ------------------------------------------------- the requested city
\* The page with searches, retries and unit changes, each request ending in
\* data, in the no-results panel or in the error panel.
CityInit ==
    /\ win = [fn |-> "city"]
    /\ Unbooted
    /\ currentUnits = DefaultUnits
    /\ prefs = NoPrefsMap

CityNext ==
    \/ Startup
    \/ \E input \in SearchInputs : SearchClick(input)
    \/ RetryClick
    \/ \E l \in ClickedLabels, k \in {"metric", "imperial"} : OptionClick(l, k)
    \/ SwitchClick
    \/ \E i \in 1..RequestCap, o \in {"reject", "empty", "found"} : GeoFetchSettles(i, o)
    \/ \E i \in 1..RequestCap : GeoJsonSettles(i)
    \/ \E i \in 1..RequestCap : ForecastFetchSettles(i, "ok")
    \/ \E i \in 1..RequestCap :
          ForecastJsonSettles(i, Payload(i, TRUE, TRUE, TRUE, HourlyOf(i), <<1, 2>>))
    \/ \E k \in 1..RequestCap : NoResultTimer(k)
    \/ \E k \in 1..RequestCap : RenderTimer(k, 0)
    \/ \E k \in 1..RequestCap : CatchTimer(k)

CitySpec == CityInit /\ [][CityNext]_vars

\* a step that calls fetchTodayWeather
Issues == Len(tasks') = Len(tasks) + 1

\* a click on the retry button, on a unit option or on the switch button
RefetchClick ==
    \/ RetryClick
    \/ SwitchClick
    \/ \E l \in Labels, k \in {"metric", "imperial"} : OptionClick(l, k)

\* C30: lastCity is the city argument of the most recently issued request: it
\* is set at every call, nothing else changes it (whatever the requests end
\* in), and the latest request carries it while in flight; a retry, a unit
\* option click and a switch click issue their request for the lastCity they
\* find, which is the searched city and not the displayed one.
C30_LastCityIsLatestRequested ==
    /\ [](\A i \in 1..Len(tasks) :
             (i = Len(tasks) /\ tasks[i].pc \notin Returned \cup {"rejected"})
                => tasks[i].city = lastCity)
    /\ [][/\ Issues => lastCity' = tasks'[Len(tasks')].city
          /\ ~Issues => lastCity' = lastCity
          /\ RefetchClick => Issues /\ tasks'[Len(tasks')].city = lastCity]_vars

\* Amman is displayed, a search for Oslo is in flight, and a click on the
\* imperial wind option has issued the third request, for Oslo
C30_Witness ==
    /\ Len(tasks) = 3
    /\ tasks[1].pc = "ret_ok" /\ view.header.location = "Amman"
    /\ tasks[2].pc = "geo_fetch" /\ tasks[2].city = "Oslo"
    /\ selected["Wind Speed"] = "imperial" /\ switchBtn.state = "mixed"
    /\ tasks[3].pc = "geo_fetch" /\ tasks[3].city = "Oslo" /\ lastCity = "Oslo"

\* a click on a unit option or on the switch button
UnitClick ==
    \/ SwitchClick
    \/ \E l \in Labels, k \in {"metric", "imperial"} : OptionClick(l, k)

\* what showLoading changes
LoaderFlags == {"loadingCon", "bgShow", "mainContToday", "weatherIcon"}

\* C31: a unit option click or a switch click leaves the stored preferences
\* equal to the selection of every section, has issued exactly one request,
\* for lastCity, without touching the loading indicator, and that request is
\* the latest: every request issued before is superseded.
C31_UnitClickSavesAndRefetches ==
    [][UnitClick =>
          /\ \A l \in Labels : prefs'[l] = selected'[l]
          /\ Len(tasks') = Len(tasks) + 1
          /\ tasks'[Len(tasks')].city = lastCity /\ lastCity' = lastCity
          /\ tasks'[Len(tasks')].pc = "geo_fetch"
          /\ tasks'[Len(tasks')].requestId = latestRequestId'
          /\ \A e \in LoaderFlags : ui'[e] = ui[e]
          /\ \A i \in 1..Len(tasks) :
                tasks'[i] = tasks[i] /\ IsStale(tasks[i].requestId, latestRequestId')]_vars

\* the data of request 1 is displayed with the loading container hidden; two
\* unit clicks have issued requests 2 and 3, request 2 still in flight
C31_Witness ==
    /\ Len(tasks) = 3 /\ latestRequestId = 3
    /\ tasks[1].pc = "ret_ok" /\ ui["loadingCon"]
    /\ tasks[2].pc = "fc_fetch" /\ tasks[3].pc = "geo_fetch"
    /\ tasks[3].city = lastCity
    /\ selected["Wind Speed"] = "imperial" /\ prefs = selected

\* the selection a switch click makes when the button records state
SwitchTarget(state) ==
    [l \in Labels |-> IF state = "metric" THEN "imperial" ELSE "metric"]

Uniform(sel) == \E k \in {"metric", "imperial"} : \A l \in Labels : sel[l] = k

\* C32: a switch click selects imperial in every section when the button
\* records metric and metric in every section when it records imperial or
\* mixed; the state derived and recorded afterwards is not mixed; the click
\* that follows a click made on a uniform selection goes back to that
\* selection, the recorded state changing at no other event in between.
C32_SwitchClickToggles ==
    [][/\ SwitchClick =>
             /\ selected' = SwitchTarget(switchBtn.state)
             /\ Uniform(selected')
             /\ getCurrentSystem(selected') # "mixed"
             /\ switchBtn'.state = getCurrentSystem(selected')
             /\ Uniform(selected) =>
                   /\ switchBtn.state = getCurrentSystem(selected)
                   /\ selected' # selected
                   /\ SwitchTarget(switchBtn'.state) = selected
       /\ ~(Startup \/ UnitClick) => UNCHANGED <<selected, switchBtn>>]_vars

\* three forecast calls in flight, with metric, imperial and metric units:
\* the start-up call and the calls of two consecutive switch clicks
C32_Witness ==
    /\ Len(tasks) = 3
    /\ \A i \in 1..3 : tasks[i].pc = "fc_fetch"
    /\ tasks[1].units = DefaultUnits /\ tasks[3].units = DefaultUnits
    /\ tasks[2].units = [temperature |-> "fahrenheit", wind |-> "mph", precipitation |-> "inch"]
    /\ selected = Metric /\ switchBtn.state = "metric"

\* a click on an item of the day menu
DayClick == \E k \in 1..2 : MenuClick(k)

\* C33: a click on a day leaves latestRequestId, lastCity, lastWeatherData,
\* currentUnits and the stored preferences as they are and calls nothing (no
\* invocation and no timer is created or moved); with no snapshot stored it
\* changes the active item and the trigger label and nothing else, the hourly
\* cards included.
C33_DayClickFrame ==
    [][DayClick =>
          /\ UNCHANGED <<latestRequestId, lastCity, lastWeatherData, currentUnits, prefs>>
          /\ UNCHANGED <<tasks, timers>>
          /\ lastWeatherData = NoBody =>
                /\ view' = [view EXCEPT !.active = view'.active, !.trigger = view'.trigger]
                /\ view'.hours = view.hours
                /\ UNCHANGED <<ui, selected, switchBtn, booted>>]_vars

\* the template item of the day menu was clicked while the start-up request
\* was in flight and nothing is stored
C33_Witness ==
    /\ lastWeatherData = NoBody
    /\ view.active = 1 /\ view.trigger = "TemplateItem" /\ view.hours = <<>>
    /\ Len(tasks) = 1 /\ tasks[1].pc = "fc_json" /\ latestRequestId = 1

\* the empty input and a whitespace-only input
BlankInputs == {"", "  "}

\* C34: a search click (or Enter) on an empty or whitespace-only input is
\* handled and changes nothing: in no state does it have an outcome in which
\* latestRequestId, lastCity, lastWeatherData, a loading indicator, the search
\* button, a panel, an invocation or a timer differs.
C34_BlankSearchChangesNothing ==
    \A b \in BlankInputs :
        /\ ~ENABLED (SearchClick(b) /\ vars' # vars)
        /\ (booted /\ ~ui["searchBtnDisabled"]) => ENABLED SearchClick(b)

\* the start-up request is in flight with the loading container shown and
\* the search button enabled: a click on a blank input is handled here
C34_Witness ==
    /\ booted /\ ~ui["searchBtnDisabled"] /\ ~ui["loadingCon"]
    /\ Len(tasks) = 1 /\ tasks[1].pc = "geo_fetch"
    /\ ENABLED SearchClick("  ")
    /\ ENABLED (SearchClick("Oslo") /\ vars' # vars)

====
